---- MODULE Spec2Model ----
(***************************************************************************)
(* Model of global-clock: the frame orchestrator (src/src/main.rs), the    *)
(* shared viewport projection (src/src/viewport.rs), the clock face hand   *)
(* angles (src/src/clock_face.rs), the globe parameters                    *)
(* (src/src/globe.rs) and the background pass (src/src/background.rs).     *)
(*                                                                         *)
(* f32 values are modelled as exact rationals <<n, d>> (d > 0, lowest      *)
(* terms).  Angles are kept in turns: the rational q stands for q * TAU.   *)
(*                                                                         *)
(* The window belongs to the windowing system: the code reads its size     *)
(* live with gfx.window.inner_size() (main.rs:138, viewport.rs:56) and is  *)
(* told of a change later, by a Resized event whose payload it ignores     *)
(* (main.rs:169).  window_size is therefore changed by the environment and *)
(* resized_pending records that the event has not been delivered yet.      *)
(*                                                                         *)
(* Each handler of the event loop closure is one action, except            *)
(* App::redraw, whose unbounded loop takes one step per call of            *)
(* get_current_frame; the result of that call is chosen by the environment.*)
(*                                                                         *)
(* Construction can fail at each of its fallible steps; run unwraps the    *)
(* result, so a failed construction is an initial state that has panicked. *)
(*                                                                         *)
(* The CloseRequested arm only sets ControlFlow::Exit (main.rs:167).  The  *)
(* event loop then delivers no timer firing and accepts no new event, but  *)
(* it may still call the closure for events that were already queued.      *)
(***************************************************************************)
EXTENDS Integers, Sequences, FiniteSets, TLC

VARIABLES
    startup,          \* history: the step of App::new that failed, or "None"
    window_size,      \* gfx.window.inner_size(), owned by the windowing system
    resized_pending,  \* a WindowEvent::Resized is queued and not yet delivered
    redraw_requested, \* a RedrawRequested event is queued and not yet delivered
    control_flow,     \* *control_flow of the event loop closure
    panicked,         \* App::new(..).unwrap() or app.redraw().unwrap() has panicked
    pc,               \* position of the closure: "wait" or inside App::redraw's loop
    swap_chain,       \* App.swap_chain : Option<wgpu::SwapChain>
    proj,             \* contents of Viewport.uniform_buffer (Uniforms.proj)
    uniforms,         \* Globe.uniforms
    uniform_buffer,   \* contents of Globe.uniform_buffer on the GPU
    hour_angle,       \* Renderer.hour_angle
    minute_angle,     \* Renderer.minute_angle
    pixmap,           \* Renderer.pixmap
    texture,          \* contents of ClockFace.texture on the GPU
    date_arg,         \* history: argument of the last Globe::set_date
    time_arg,         \* history: argument of the last Renderer::set_time
    acquisitions,     \* history: get_current_frame calls of the current/last redraw
    outcome,          \* history: what the latest get_current_frame returned
    result,           \* history: what the last App::redraw returned
    queue_log         \* history: gfx.queue operations of the current/last redraw

vars == <<startup, window_size, resized_pending, redraw_requested, control_flow, panicked,
          pc, swap_chain, proj, uniforms, uniform_buffer, hour_angle,
          minute_angle, pixmap, texture, date_arg, time_arg, acquisitions,
          outcome, result, queue_log>>

startVars == <<startup>>
envVars == <<window_size, resized_pending>>
loopVars == <<redraw_requested, control_flow, panicked, pc>>
viewVars == <<proj>>
timeVars == <<uniforms, hour_angle, minute_angle, date_arg, time_arg>>
gpuVars == <<uniform_buffer, pixmap, texture>>
frameVars == <<acquisitions, outcome, result, queue_log>>

-----------------------------------------------------------------------------
(* Bounds of the model *)

MaxDim == 2            \* the windowing system resizes to sizes in 1..MaxDim
MaxDeadline == 1       \* timer deadlines t0 + 0 .. t0 + MaxDeadline seconds
MaxAcquisitions == 3   \* the acquisition counter saturates here
MaxLate == 1           \* the timer fires 0 .. MaxLate seconds after its deadline

(* Program constants *)

InitialSize == 720         \* main.rs: LogicalSize::new(720, 720)
HourHandPeriod == 86400    \* clock_face.rs: seconds per turn of the hour hand
MinuteHandPeriod == 3600   \* clock_face.rs: seconds per turn of the minute hand
SECONDS_PER_DAY == 86400   \* globe.rs
DAYS_PER_YEAR == 365       \* globe.rs
EQUINOX_OFFSET == -78      \* globe.rs

-----------------------------------------------------------------------------
(* Rational arithmetic standing for f32 arithmetic *)

RECURSIVE GCD(_, _)
GCD(a, b) == IF b = 0 THEN a ELSE GCD(b, a % b)

Abs(n) == IF n < 0 THEN -n ELSE n

\* n / d as a rational in lowest terms (d > 0)
Frac(n, d) == LET g == GCD(Abs(n), d) IN <<n \div g, d \div g>>

FZero == <<0, 1>>
FOne == <<1, 1>>

FMul(a, b) == Frac(a[1] * b[1], a[2] * b[2])
FAdd(a, b) == Frac(a[1] * b[2] + b[1] * a[2], a[2] * b[2])

Min(a, b) == IF a <= b THEN a ELSE b

-----------------------------------------------------------------------------
(* viewport.rs *)

Vec4X == <<FOne, FZero, FZero, FZero>>
Vec4Y == <<FZero, FOne, FZero, FZero>>
Vec4Z == <<FZero, FZero, FOne, FZero>>
Vec4W == <<FZero, FZero, FZero, FOne>>

Vec4Scale(s, v) == [i \in 1..4 |-> FMul(s, v[i])]

\* Uniforms::default: Mat4::IDENTITY, columns first
UniformsDefault == <<Vec4X, Vec4Y, Vec4Z, Vec4W>>

\* fault variant of XScale: divides by size.y
XScaleByHeight(size) == Vec4Scale(Frac(Min(size[1], size[2]), size[2]), Vec4X)

\* size.min_element() / size.x * Vec4::X
XScale(size) == Vec4Scale(Frac(Min(size[1], size[2]), size[1]), Vec4X)

\* size.min_element() / size.y * Vec4::Y
YScale(size) == Vec4Scale(Frac(Min(size[1], size[2]), size[2]), Vec4Y)

\* Uniforms::new
UniformsNew(size) == <<XScale(size), YScale(size), Vec4Z, Vec4W>>

\* fault variant of Viewport_window_resized: the new projection is not uploaded
Viewport_window_resized_NoUpload == proj' = proj

\* Viewport::window_resized: write_buffer of Uniforms::new(inner_size)
Viewport_window_resized == proj' = UniformsNew(window_size)

-----------------------------------------------------------------------------
(* clock_face.rs *)

\* fault variant of HourAngle: a 12-hour dial
HourAngleHalfDay(secs) == Frac(secs, HourHandPeriod \div 2)

\* Renderer::set_time, the value stored in hour_angle (in turns)
HourAngle(secs) == Frac(secs, HourHandPeriod)

\* fault variant of MinuteAngle: the hour hand's period
MinuteAnglePerDay(secs) == Frac(secs, HourHandPeriod)

\* Renderer::set_time, the value stored in minute_angle (in turns)
MinuteAngle(secs) == Frac(secs, MinuteHandPeriod)

\* Renderer::set_time
Renderer_set_time(secs) ==
    /\ hour_angle' = HourAngle(secs)
    /\ minute_angle' = MinuteAngle(secs)
    /\ time_arg' = <<secs>>

\* Pixmap::new: all pixels transparent.  A pixmap is modelled by the strokes
\* that were painted on it since it was last all transparent, oldest first.
BlankPixmap == <<>>

\* Pixmap::fill(Color::TRANSPARENT): every pixel transparent, whatever it held
Pixmap_fill(pm) == <<>>

\* Pixmap::stroke_path with the renderer's paint and transform, pre-rotated
\* by `rotate` turns
Pixmap_stroke_path(pm, path, stroke, rotate) ==
    Append(pm, [path |-> path, stroke |-> stroke, rotate |-> rotate])

\* Transform::from_rotate(-angle.to_degrees()), in turns
FromRotateNeg(angle) == Frac(-angle[1], angle[2])

\* the four stroke_path calls of Renderer::redraw on pixmap pm
StrokeFace(pm, h, m) ==
    Pixmap_stroke_path(
        Pixmap_stroke_path(
            Pixmap_stroke_path(
                Pixmap_stroke_path(pm, "major_tick_path", "major_stroke", FZero),
                "minor_tick_path", "minor_stroke", FZero),
            "hour_hand_path", "major_stroke", FromRotateNeg(h)),
        "minute_hand_path", "minor_stroke", FromRotateNeg(m))

\* fault variant of Renderer_redraw: the pixmap is not cleared first
Renderer_redraw_NoFill(h, m) == StrokeFace(pixmap, h, m)

\* Renderer::redraw: clear, stroke the ticks, stroke both hands at their angles
Renderer_redraw(h, m) == StrokeFace(Pixmap_fill(pixmap), h, m)

-----------------------------------------------------------------------------
(* globe.rs *)

\* ANGLE_OFFSET = TAU / 4.0, in turns
ANGLE_OFFSET == Frac(1, 4)

\* MAX_AXIAL_TILT = 23.4 / 360.0 * TAU, in turns
MAX_AXIAL_TILT == Frac(234, 3600)

\* f32::sin of an angle of p turns, kept symbolic: the result is sin(asin turns)
\* for the one angle asin in [-1/4, 1/4] turn that has the same sine as p.  The
\* sine grows strictly with asin on that interval, so two sines are equal, or
\* ordered, exactly as their asin are.
Sin(p) ==
    LET r == p[1] % p[2]
    IN  IF 4 * r <= p[2] THEN Frac(r, p[2])
        ELSE IF 4 * r <= 3 * p[2] THEN Frac(p[2] - 2 * r, 2 * p[2])
        ELSE Frac(r - p[2], p[2])

\* the product scale * sin(asin turns), an angle in turns
ScaledSin(scale, p) == [scale |-> scale, asin |-> Sin(p)]

\* Uniforms::default.  Angles are in turns; axial_tilt 0.0 is MAX_AXIAL_TILT * sin(0).
GlobeUniformsDefault ==
    [local_scale |-> Frac(8, 10),
     rotation |-> FZero,
     axial_tilt |-> ScaledSin(MAX_AXIAL_TILT, FZero),
     min_latitude |-> Frac(-1, 4),
     max_latitude |-> Frac(1, 4),
     deflection_point |-> <<Frac(55, 100), Frac(65, 100)>>]

\* fault variant of Rotation: the phase offset is left out
RotationNoOffset(date) == Frac(date.secs, SECONDS_PER_DAY)

\* Globe::set_date, the rotation:
\* num_seconds_from_midnight / SECONDS_PER_DAY * TAU + ANGLE_OFFSET
Rotation(date) == FAdd(Frac(date.secs, SECONDS_PER_DAY), ANGLE_OFFSET)

\* fault variant of AxialTilt: a year of 366 days
AxialTiltLeapYear(date) ==
    ScaledSin(MAX_AXIAL_TILT, Frac(date.ordinal0 + EQUINOX_OFFSET, DAYS_PER_YEAR + 1))

\* Globe::set_date, the tilt:
\* MAX_AXIAL_TILT * ((ordinal0 + EQUINOX_OFFSET) / DAYS_PER_YEAR * TAU).sin()
AxialTilt(date) ==
    ScaledSin(MAX_AXIAL_TILT, Frac(date.ordinal0 + EQUINOX_OFFSET, DAYS_PER_YEAR))

\* fault variant of Globe_set_date: the latitude limits follow the date too
Globe_set_date_MovesLatitudes(date) ==
    /\ uniforms' = [uniforms EXCEPT
            !.rotation = Rotation(date),
            !.axial_tilt = AxialTilt(date),
            !.min_latitude = FAdd(Frac(-1, 4), Frac(date.ordinal0, 4 * DAYS_PER_YEAR)),
            !.max_latitude = FAdd(Frac(1, 4), Frac(-date.ordinal0, 4 * DAYS_PER_YEAR))]
    /\ date_arg' = <<date>>

\* Globe::set_date
Globe_set_date(date) ==
    /\ uniforms' = [uniforms EXCEPT
            !.rotation = Rotation(date),
            !.axial_tilt = AxialTilt(date)]
    /\ date_arg' = <<date>>

-----------------------------------------------------------------------------
(* background.rs and the draw methods: the render passes and queue writes *)

\* Background::draw: one render pass that clears the target to black and
\* draws nothing
Background_draw(encoder) ==
    Append(encoder, [label |-> "Background.render_pass", load |-> "Clear",
                     clear_color |-> "BLACK", blend |-> "None"])

\* the render pass of Globe::draw
Globe_draw(encoder) ==
    Append(encoder, [label |-> "Globe.render_pass", load |-> "Load",
                     clear_color |-> "None", blend |-> "ALPHA_BLENDING"])

\* fault variant of ClockFace_draw: the pass clears the target
ClockFace_draw_Clears(encoder) ==
    Append(encoder, [label |-> "ClockFace.render_pass", load |-> "Clear",
                     clear_color |-> "TRANSPARENT",
                     blend |-> "PREMULTIPLIED_ALPHA_BLENDING"])

\* the render pass of ClockFace::draw
ClockFace_draw(encoder) ==
    Append(encoder, [label |-> "ClockFace.render_pass", load |-> "Load",
                     clear_color |-> "None",
                     blend |-> "PREMULTIPLIED_ALPHA_BLENDING"])

\* fault variant of EncodeFrame: the background is drawn last
EncodeFrameBackgroundLast == Background_draw(ClockFace_draw(Globe_draw(<<>>)))

\* App::redraw, lines 113-118: a fresh encoder, then the three draws
EncodeFrame == ClockFace_draw(Globe_draw(Background_draw(<<>>)))

\* the gfx.queue operations of a redraw that obtained a frame, in program order:
\* Globe::draw writes its uniforms, ClockFace::draw writes its texture, then
\* App::redraw submits the finished encoder
FrameQueueOps ==
    << [op |-> "write_buffer", target |-> "Globe.uniform_buffer"],
       [op |-> "write_texture", target |-> "ClockFace.texture"],
       [op |-> "submit", passes |-> EncodeFrame] >>

-----------------------------------------------------------------------------
(* main.rs *)

None == <<>>
Some(x) == <<x>>

\* the sizes the windowing system can give the window
Sizes == {<<InitialSize, InitialSize>>} \cup ((1..MaxDim) \X (1..MaxDim))

\* Utc::now() as sampled by App::update
Instants == {[ordinal0 |-> 78, secs |-> 0], [ordinal0 |-> 365, secs |-> 84600]}

\* the offset of Local from Utc, in seconds
Offsets == {0, 3600}

\* date.with_timezone(&Local).time().num_seconds_from_midnight()
LocalSeconds(date, offset) == (date.secs + offset) % SECONDS_PER_DAY

Poll == [kind |-> "Poll", at |-> 0]
Exit == [kind |-> "Exit", at |-> 0]
WaitUntil(t) == [kind |-> "WaitUntil", at |-> t]

\* the loop waits for events: it is past its Init event and no Exit is set
Waiting == control_flow.kind = "WaitUntil"

\* the closure is still being called by the event loop: no handler has
\* panicked, and the loop is waiting or, with Exit set, is delivering the
\* events that were queued before it ends
Running == ~panicked /\ control_flow.kind \in {"WaitUntil", "Exit"}

\* the fallible steps of App::new: request_adapter, request_device,
\* get_swap_chain_preferred_format, and load_texture of the day and of the
\* night texture in Globe::new
StartupFailures == {"adapter", "device", "render_format", "day_texture", "night_texture"}

\* fault variant of App_new: a texture that fails to load is left out
App_new_WithoutTextures(failure) ==
    IF failure \in {"adapter", "device", "render_format"} THEN "Err" ELSE "Ok"

\* App::new: every fallible step is followed by `?`, so the failure of any one
\* returns Err and drops what was built before it
App_new(failure) == IF failure \in StartupFailures THEN "Err" ELSE "Ok"

\* run up to the first event: App::new(window).await.unwrap() panics on Err,
\* before event_loop.run is reached
Init ==
    /\ startup \in StartupFailures \cup {"None"}
    /\ window_size = <<InitialSize, InitialSize>>
    /\ resized_pending = FALSE
    /\ redraw_requested = FALSE
    /\ control_flow = Poll
    /\ panicked = (App_new(startup) = "Err")
    /\ pc = "wait"
    /\ swap_chain = None
    /\ proj = UniformsDefault
    /\ uniforms = GlobeUniformsDefault
    /\ uniform_buffer = None
    /\ hour_angle = FZero
    /\ minute_angle = FZero
    /\ pixmap = BlankPixmap
    /\ texture = None
    /\ date_arg = None
    /\ time_arg = None
    /\ acquisitions = 0
    /\ outcome = "None"
    /\ result = "None"
    /\ queue_log = <<>>

\* App::swap_chain: get_or_insert_with a swap chain of the window's inner size
App_swap_chain ==
    IF swap_chain = None
    THEN Some([width |-> window_size[1], height |-> window_size[2]])
    ELSE swap_chain

\* fault variant of App_update: the clock samples the time a second time
App_update_TwoInstants ==
    \E date \in Instants, now \in Instants, offset \in Offsets :
        /\ Globe_set_date(date)
        /\ Renderer_set_time(LocalSeconds(now, offset))

\* App::update
App_update ==
    \E date \in Instants, offset \in Offsets :
        /\ Globe_set_date(date)
        /\ Renderer_set_time(LocalSeconds(date, offset))

\* fault variant of App_window_resized: the swap chain is kept
App_window_resized_KeepsChain ==
    /\ swap_chain' = swap_chain
    /\ Viewport_window_resized

\* App::window_resized
App_window_resized ==
    /\ swap_chain' = None
    /\ Viewport_window_resized

(* The windowing system *)

\* the window gets another size; winit queues a Resized event for it
EnvResize ==
    /\ ~panicked /\ control_flow.kind # "Exit"
    /\ \E size \in Sizes \ {window_size} : window_size' = size
    /\ resized_pending' = TRUE
    /\ UNCHANGED <<startVars, loopVars, swap_chain, viewVars, timeVars, gpuVars, frameVars>>

\* the windowing system asks for a repaint
EnvRedrawRequest ==
    /\ Running /\ Waiting
    /\ ~redraw_requested
    /\ redraw_requested' = TRUE
    /\ UNCHANGED <<startVars, envVars, control_flow, panicked, pc, swap_chain, viewVars,
                   timeVars, gpuVars, frameVars>>

(* The closure given to event_loop.run, one action per match arm *)

\* Event::NewEvents(StartCause::Init)
HandleInit ==
    /\ control_flow = Poll /\ ~panicked /\ pc = "wait"
    /\ control_flow' = WaitUntil(0)
    /\ UNCHANGED <<startVars, envVars, redraw_requested, panicked, pc, swap_chain, viewVars,
                   timeVars, gpuVars, frameVars>>

\* fault variant of ResumeTimeReached: the next deadline is counted from the
\* time of the firing
ResumeTimeReached_FromStart(start, requested_resume) ==
    /\ control_flow' = WaitUntil(start + 1)
    /\ redraw_requested' = TRUE

\* the body of the ResumeTimeReached arm: the next deadline is
\* requested_resume + Duration::from_secs(1), and request_redraw()
ResumeTimeReached(start, requested_resume) ==
    /\ control_flow' = WaitUntil(requested_resume + 1)
    /\ redraw_requested' = TRUE

\* Event::NewEvents(StartCause::ResumeTimeReached { start, requested_resume }):
\* the loop wakes `late` seconds after the deadline it was waiting for
HandleResumeTimeReached ==
    /\ Running /\ Waiting /\ pc = "wait"
    /\ control_flow.at < MaxDeadline
    /\ \E late \in 0 .. MaxLate :
          ResumeTimeReached(control_flow.at + late, control_flow.at)
    /\ UNCHANGED <<startVars, envVars, panicked, pc, swap_chain, viewVars, timeVars, gpuVars,
                   frameVars>>

\* Event::RedrawRequested(..): app.update(), then app.redraw() up to its loop
HandleRedrawRequested ==
    /\ Running /\ pc = "wait"
    /\ redraw_requested
    /\ redraw_requested' = FALSE
    /\ App_update
    /\ pc' = "acquire"
    /\ acquisitions' = 0
    /\ outcome' = "None"
    /\ result' = "None"
    /\ queue_log' = <<>>
    /\ UNCHANGED <<startVars, envVars, control_flow, panicked, swap_chain, viewVars, gpuVars>>

\* one pass of the loop of App::redraw: self.swap_chain().get_current_frame()
Acquire ==
    /\ Running /\ pc = "acquire"
    /\ acquisitions' = Min(acquisitions + 1, MaxAcquisitions)

\* fault variant of RedrawFrame: the projection is uploaded again with each frame
RedrawFrame_UploadsProjection ==
    /\ Acquire
    /\ swap_chain' = App_swap_chain
    /\ proj' = UniformsNew(window_size)
    /\ uniform_buffer' = Some(uniforms)
    /\ pixmap' = Renderer_redraw(hour_angle, minute_angle)
    /\ texture' = Some(pixmap')
    /\ queue_log' = FrameQueueOps
    /\ outcome' = "Ok"
    /\ result' = "Ok"
    /\ pc' = "wait"
    /\ UNCHANGED <<startVars, envVars, redraw_requested, control_flow, panicked, timeVars>>

\* Ok(frame) => break frame.output, then lines 113-121
RedrawFrame ==
    /\ Acquire
    /\ swap_chain' = App_swap_chain
    /\ uniform_buffer' = Some(uniforms)
    /\ pixmap' = Renderer_redraw(hour_angle, minute_angle)
    /\ texture' = Some(pixmap')
    /\ queue_log' = FrameQueueOps
    /\ outcome' = "Ok"
    /\ result' = "Ok"
    /\ pc' = "wait"
    /\ UNCHANGED <<startVars, envVars, redraw_requested, control_flow, panicked, viewVars,
                   timeVars>>

\* fault variant of RedrawLost: the lost swap chain is kept
RedrawLost_KeepsChain ==
    /\ Acquire
    /\ swap_chain' = App_swap_chain
    /\ outcome' = "Lost"
    /\ UNCHANGED <<startVars, envVars, loopVars, viewVars, timeVars, gpuVars, result, queue_log>>

\* Err(wgpu::SwapChainError::Lost) => self.swap_chain = None, and loop
RedrawLost ==
    /\ Acquire
    /\ swap_chain' = None
    /\ outcome' = "Lost"
    /\ UNCHANGED <<startVars, envVars, loopVars, viewVars, timeVars, gpuVars, result, queue_log>>

\* fault variant of RedrawSkip: the loop is told to exit
RedrawSkip_Exits ==
    /\ Acquire
    /\ swap_chain' = App_swap_chain
    /\ \E o \in {"Timeout", "Outdated"} : outcome' = o
    /\ result' = "Ok"
    /\ pc' = "wait"
    /\ control_flow' = Exit
    /\ UNCHANGED <<startVars, envVars, redraw_requested, panicked, viewVars, timeVars,
                   gpuVars, queue_log>>

\* fault variant of RedrawSkip: the swap chain is dropped as for Lost
RedrawSkip_DropsChain ==
    /\ Acquire
    /\ swap_chain' = None
    /\ \E e \in {"Timeout", "Outdated"} : outcome' = e
    /\ result' = "Ok"
    /\ pc' = "wait"
    /\ UNCHANGED <<startVars, envVars, redraw_requested, control_flow, panicked, viewVars,
                   timeVars, gpuVars, queue_log>>

\* Err(Timeout) | Err(Outdated) => return Ok(())
RedrawSkip ==
    /\ Acquire
    /\ swap_chain' = App_swap_chain
    /\ \E e \in {"Timeout", "Outdated"} : outcome' = e
    /\ result' = "Ok"
    /\ pc' = "wait"
    /\ UNCHANGED <<startVars, envVars, redraw_requested, control_flow, panicked, viewVars,
                   timeVars, gpuVars, queue_log>>

\* fault variant of RedrawError: the error is dropped instead of unwrapped
RedrawError_Swallowed ==
    /\ Acquire
    /\ swap_chain' = App_swap_chain
    /\ outcome' = "OutOfMemory"
    /\ result' = "Err"
    /\ panicked' = FALSE
    /\ pc' = "wait"
    /\ UNCHANGED <<startVars, envVars, redraw_requested, control_flow, viewVars, timeVars,
                   gpuVars, queue_log>>

\* Err(err) => return Err(err.into()), and the unwrap() of the closure panics
RedrawError ==
    /\ Acquire
    /\ swap_chain' = App_swap_chain
    /\ outcome' = "OutOfMemory"
    /\ result' = "Err"
    /\ panicked' = TRUE
    /\ pc' = "wait"
    /\ UNCHANGED <<startVars, envVars, redraw_requested, control_flow, viewVars, timeVars,
                   gpuVars, queue_log>>

\* WindowEvent::Resized(..)
HandleResized ==
    /\ Running /\ pc = "wait"
    /\ resized_pending
    /\ resized_pending' = FALSE
    /\ App_window_resized
    /\ UNCHANGED <<startVars, window_size, loopVars, timeVars, gpuVars, frameVars>>

\* WindowEvent::ScaleFactorChanged { .. }
HandleScaleFactorChanged ==
    /\ Running /\ pc = "wait"
    /\ App_window_resized
    /\ UNCHANGED <<startVars, envVars, loopVars, timeVars, gpuVars, frameVars>>

\* WindowEvent::CloseRequested
HandleCloseRequested ==
    /\ Running /\ Waiting /\ pc = "wait"
    /\ control_flow' = Exit
    /\ UNCHANGED <<startVars, envVars, redraw_requested, panicked, pc, swap_chain, viewVars,
                   timeVars, gpuVars, frameVars>>

Next ==
    \/ EnvResize
    \/ EnvRedrawRequest
    \/ HandleInit
    \/ HandleResumeTimeReached
    \/ HandleRedrawRequested
    \/ RedrawFrame
    \/ RedrawLost
    \/ RedrawSkip
    \/ RedrawError
    \/ HandleResized
    \/ HandleScaleFactorChanged
    \/ HandleCloseRequested

Spec == Init /\ [][Next]_vars

-----------------------------------------------------------------------------
(* The viewport under a wider range of window sizes *)

\* widths and heights of the resize scenarios, 720x720 to 1440x720 among them
ScenarioDims == (1..MaxDim) \cup {InitialSize, 2 * InitialSize}

ScenarioSizes == ScenarioDims \X ScenarioDims

\* the window gets one of the scenario sizes; winit queues a Resized event
EnvResizeScenario ==
    /\ ~panicked /\ control_flow.kind # "Exit"
    /\ \E size \in ScenarioSizes \ {window_size} : window_size' = size
    /\ resized_pending' = TRUE
    /\ UNCHANGED <<startVars, loopVars, swap_chain, viewVars, timeVars, gpuVars, frameVars>>

NextViewport ==
    \/ HandleInit
    \/ EnvResizeScenario
    \/ HandleResized
    \/ HandleScaleFactorChanged

SpecViewport == Init /\ [][NextViewport]_vars

-----------------------------------------------------------------------------
(* The clock hands over a whole day, second by second *)

\* ClockFace::set_time with any time of day, the first call after construction
ClockSetTime ==
    /\ ~panicked
    /\ time_arg = None
    /\ \E secs \in 0 .. (HourHandPeriod - 1) : Renderer_set_time(secs)
    /\ UNCHANGED <<startVars, envVars, loopVars, swap_chain, viewVars, uniforms, date_arg,
                   gpuVars, frameVars>>

\* ClockFace::set_time one second after the previous call
ClockTick ==
    /\ time_arg # None
    /\ Renderer_set_time((time_arg[1] + 1) % HourHandPeriod)
    /\ UNCHANGED <<startVars, envVars, loopVars, swap_chain, viewVars, uniforms, date_arg,
                   gpuVars, frameVars>>

NextClock == ClockSetTime \/ ClockTick

SpecClock == Init /\ [][NextClock]_vars

-----------------------------------------------------------------------------
(* The globe over the days of a year and the seconds of a day *)

\* Datelike::ordinal0 of a date: 0 .. 364, and 365 on the last day of a leap year
DayIndices == 0 .. DAYS_PER_YEAR

\* the days on which every second of the day is visited: the equinox index
\* and the last day of a leap year
FullDays == {-EQUINOX_OFFSET, DAYS_PER_YEAR}

\* the times of day visited on every day: 00:00:00, 06:00:00, 12:00:00, 23:59:59
DayTimes == {0, SECONDS_PER_DAY \div 4, SECONDS_PER_DAY \div 2, SECONDS_PER_DAY - 1}

GlobeDates ==
    [ordinal0 : FullDays, secs : 0 .. (SECONDS_PER_DAY - 1)]
        \cup [ordinal0 : DayIndices, secs : DayTimes]

\* the day indices that can follow day index d: the next one, or 0 after the
\* last day of a common or of a leap year
NextDayIndices(d) ==
    IF d < DAYS_PER_YEAR - 1 THEN {d + 1}
    ELSE IF d = DAYS_PER_YEAR - 1 THEN {DAYS_PER_YEAR, 0}
    ELSE {0}

\* Globe::set_date with any date, the first call after construction
GlobeSetDate ==
    /\ ~panicked
    /\ date_arg = None
    /\ \E date \in GlobeDates : Globe_set_date(date)
    /\ UNCHANGED <<startVars, envVars, loopVars, swap_chain, viewVars, hour_angle,
                   minute_angle, time_arg, gpuVars, frameVars>>

\* Globe::set_date one second after the previous call, on the same day
GlobeNextSecond ==
    /\ date_arg # None
    /\ LET date == [date_arg[1] EXCEPT !.secs = @ + 1]
       IN  /\ date \in GlobeDates
           /\ Globe_set_date(date)
    /\ UNCHANGED <<startVars, envVars, loopVars, swap_chain, viewVars, hour_angle,
                   minute_angle, time_arg, gpuVars, frameVars>>

\* Globe::set_date 24 hours after the previous call
GlobeNextDay ==
    /\ date_arg # None
    /\ \E d \in NextDayIndices(date_arg[1].ordinal0) :
          LET date == [date_arg[1] EXCEPT !.ordinal0 = d]
          IN  /\ date \in GlobeDates
              /\ Globe_set_date(date)
    /\ UNCHANGED <<startVars, envVars, loopVars, swap_chain, viewVars, hour_angle,
                   minute_angle, time_arg, gpuVars, frameVars>>

NextGlobe == GlobeSetDate \/ GlobeNextSecond \/ GlobeNextDay

SpecGlobe == Init /\ [][NextGlobe]_vars

-----------------------------------------------------------------------------
(* Properties *)

PassLabels(passes) == [i \in 1..Len(passes) |-> passes[i].label]

Submits == SelectSeq(queue_log, LAMBDA e : e.op = "submit")

\* a step in which App::redraw obtains a frame
FrameStep == pc = "acquire" /\ pc' = "wait" /\ outcome' = "Ok"

\* a step in which App::redraw returns on Timeout or Outdated
SkipStep == pc = "acquire" /\ pc' = "wait" /\ outcome' \in {"Timeout", "Outdated"}

\* a step in which App::redraw returns an error
ErrorStep == pc = "acquire" /\ pc' = "wait" /\ outcome' = "OutOfMemory"

\* a step in which a Resized event is delivered
ResizedStep == resized_pending /\ ~resized_pending'

\* C1: every redraw that obtained a frame has encoded exactly the passes
\* Background, Globe, ClockFace, in that order, into one command buffer and
\* submitted it exactly once; no redraw submits anything else.
C1_DrawOrder ==
    /\ (pc = "wait" /\ outcome = "Ok") =>
          /\ Len(Submits) = 1
          /\ Submits[1] = queue_log[Len(queue_log)]
    /\ \A i \in 1..Len(Submits) :
          PassLabels(Submits[i].passes) =
              <<"Background.render_pass", "Globe.render_pass", "ClockFace.render_pass">>
    /\ Len(Submits) <= 1

C1_Witness ==
    /\ pc = "wait" /\ outcome = "Ok" /\ result = "Ok"
    /\ Len(Submits) = 1 /\ Len(Submits[1].passes) = 3

\* after Lost the redraw is still in its loop, the swap chain dropped
C2_LostState ==
    /\ outcome = "Lost" => (pc = "acquire" /\ swap_chain = None /\ result = "None" /\ ~panicked)
    /\ (pc = "wait" /\ outcome = "Ok" /\ acquisitions >= 2) =>
          (result = "Ok" /\ ~panicked /\ Len(Submits) = 1)

\* the acquisition that follows a Lost and succeeds
C2_LostStep ==
    (outcome = "Lost" /\ FrameStep) =>
        /\ swap_chain' = Some([width |-> window_size[1], height |-> window_size[2]])
        /\ result' = "Ok"
        /\ Len(queue_log') = 3
        /\ queue_log'[3].op = "submit"
        /\ ~panicked'

\* C2: while the latest acquisition reported Lost the redraw is still in its
\* loop with the swap chain dropped and nothing returned; when the retried
\* acquisition succeeds, the swap chain has been configured again for the
\* window, the frame is drawn and submitted and the redraw returns Ok; no
\* redraw ever returns with Lost as its outcome.
C2_LostAbsorbed == []C2_LostState /\ [][C2_LostStep]_vars

C2_Witness ==
    /\ pc = "wait" /\ outcome = "Ok" /\ acquisitions = 2 /\ result = "Ok"
    /\ swap_chain # None /\ Len(Submits) = 1

\* C3 as claimed: one redraw performs at most two frame acquisitions (the
\* loop of App::redraw has no such bound).
C3_AtMostTwoAcquisitions == acquisitions <= 2

\* C4 as claimed: a redraw that ends on Timeout or Outdated returns Ok, writes
\* nothing to the queue, uploads nothing, requests nothing, and leaves the
\* swap chain as it was.
C4_SkipLeavesSurface ==
    [][SkipStep =>
        /\ result' = "Ok"
        /\ queue_log' = <<>>
        /\ UNCHANGED <<uniform_buffer, pixmap, texture>>
        /\ UNCHANGED <<redraw_requested, control_flow, panicked>>
        /\ swap_chain' = swap_chain]_vars

\* C4 as amended: a redraw that ends on Timeout or Outdated returns Ok, writes
\* nothing to the queue, uploads nothing, requests nothing, and does not drop
\* the swap chain: a configured swap chain is kept, an unconfigured one has
\* been configured for the window's size by the acquisition.
C4_SkipKeepsSurface ==
    [][SkipStep =>
        /\ result' = "Ok"
        /\ queue_log' = <<>>
        /\ UNCHANGED <<uniform_buffer, pixmap, texture>>
        /\ UNCHANGED <<redraw_requested, control_flow, panicked>>
        /\ swap_chain # None => swap_chain' = swap_chain
        /\ swap_chain = None =>
              swap_chain' = Some([width |-> window_size[1], height |-> window_size[2]])]_vars

C4_Witness ==
    /\ pc = "wait" /\ outcome = "Timeout" /\ result = "Ok"
    /\ queue_log = <<>> /\ texture = None /\ uniform_buffer = None
    /\ swap_chain # None /\ ~redraw_requested

\* a redraw returns Err exactly when the closure has panicked (a failed
\* App::new panics in run, before there is a closure)
C5_ErrorState ==
    /\ (pc = "wait" /\ outcome = "OutOfMemory") =>
          (result = "Err" /\ queue_log = <<>> /\ panicked)
    /\ result = "Err" <=> (panicked /\ startup = "None")

\* the failing redraw uploads nothing and nothing moves after the panic
C5_ErrorStep ==
    /\ ErrorStep => UNCHANGED <<uniform_buffer, pixmap, texture>>
    /\ panicked => UNCHANGED vars

\* C5: an acquisition error other than Lost, Timeout and Outdated makes the
\* redraw return Err with nothing written to the queue and nothing uploaded,
\* and the closure panics: no step changes anything afterwards.
C5_FatalError == []C5_ErrorState /\ [][C5_ErrorStep]_vars

C5_Witness ==
    /\ pc = "wait" /\ outcome = "OutOfMemory" /\ result = "Err" /\ panicked
    /\ redraw_requested /\ resized_pending

\* C6 as claimed, its last part: whenever the swap chain is configured, its
\* size is the window's current size.
C6_ConfiguredSizeIsWindowSize ==
    swap_chain # None =>
        swap_chain = Some([width |-> window_size[1], height |-> window_size[2]])

\* unconfigured before the first redraw; of the window's size when settled
C6_SurfaceState ==
    /\ date_arg = None => swap_chain = None
    /\ (swap_chain # None /\ ~resized_pending) =>
          swap_chain = Some([width |-> window_size[1], height |-> window_size[2]])

\* configured only inside a redraw; dropped by every delivered Resized
C6_SurfaceStep ==
    /\ (swap_chain = None /\ swap_chain' # None) =>
          /\ pc = "acquire"
          /\ swap_chain' = Some([width |-> window_size[1], height |-> window_size[2]])
    /\ ResizedStep => swap_chain' = None
    /\ (FrameStep /\ ~resized_pending) =>
          swap_chain' = Some([width |-> window_size[1], height |-> window_size[2]])

\* C6 as amended: the swap chain starts unconfigured; it is configured only
\* inside a redraw, with the window's size at that moment; every delivered
\* Resized event leaves it unconfigured; and whenever it is configured and no
\* Resized event is awaiting delivery, its size is the window's current size.
C6_LazySurface == []C6_SurfaceState /\ [][C6_SurfaceStep]_vars

C6_Witness ==
    /\ pc = "wait" /\ outcome = "Ok" /\ ~resized_pending
    /\ window_size = <<1, 2>>
    /\ swap_chain = Some([width |-> 1, height |-> 2])

\* the projection of a w x h window: X scaled by min(w,h)/w, Y by min(w,h)/h,
\* Z and W by 1, nothing else
IsProjectionFor(m, w, h) ==
    /\ m[1][1][1] * w = Min(w, h) * m[1][1][2]
    /\ m[2][2][1] * h = Min(w, h) * m[2][2][2]
    /\ m[3][3] = <<1, 1>>
    /\ m[4][4] = <<1, 1>>
    /\ \A c \in 1..4 : \A r \in 1..4 : c # r => m[c][r][1] = 0

\* C7: every window_resized leaves the projection of the window's size, whatever
\* the projection was before; a square window gives the identity and 1440x720
\* gives X scale 1/2 and Y scale 1.
C7_ProjectionOfSize ==
    [][(ResizedStep \/ proj' # proj) =>
        /\ IsProjectionFor(proj', window_size[1], window_size[2])
        /\ window_size[1] = window_size[2] =>
              (proj'[1][1] = <<1, 1>> /\ proj'[2][2] = <<1, 1>>)
        /\ window_size = <<1440, 720>> =>
              (proj'[1][1] = <<1, 2>> /\ proj'[2][2] = <<1, 1>>)]_vars

C7_Witness ==
    /\ window_size = <<1440, 720>> /\ ~resized_pending
    /\ proj[1][1] = <<1, 2>> /\ proj[2][2] = <<1, 1>>

\* C8 as claimed: whenever a frame is drawn, the projection is the one of the
\* window's current size.
C8_FrameProjection ==
    [][FrameStep => IsProjectionFor(proj', window_size'[1], window_size'[2])]_vars

\* C8 as amended: whenever a frame is drawn while no Resized event is awaiting
\* delivery, the projection is the one of the window's current size; this
\* includes the frames drawn before any Resized event, with the identity
\* projection of construction on the square initial window.
C8_FrameProjectionSettled ==
    [][(FrameStep /\ ~resized_pending) =>
        IsProjectionFor(proj', window_size'[1], window_size'[2])]_vars

C8_Witness ==
    /\ pc = "wait" /\ outcome = "Ok" /\ ~resized_pending
    /\ window_size = <<2, 1>>
    /\ proj[1][1] = <<1, 2>> /\ proj[2][2] = <<1, 1>>

\* the position of an angle within its turn, in units of 1/period of a turn
TurnUnits(a, period) == (a[1] % a[2]) * (period \div a[2])

\* C9: after set_time with s seconds since midnight the hour angle is s/86400
\* of a turn and the minute angle s/3600 of a turn; at midnight both are 0 and
\* at noon the hour angle is half a turn.
C9_HandAngles ==
    time_arg # None =>
        LET s == time_arg[1] IN
        /\ 86400 % hour_angle[2] = 0
        /\ hour_angle[1] * (86400 \div hour_angle[2]) = s
        /\ 3600 % minute_angle[2] = 0
        /\ minute_angle[1] * (3600 \div minute_angle[2]) = s
        /\ s = 0 => (hour_angle = <<0, 1>> /\ minute_angle = <<0, 1>>)
        /\ s = 43200 => hour_angle = <<1, 2>>

C9_Witness == time_arg = <<43200>> /\ hour_angle = <<1, 2>> /\ minute_angle = <<12, 1>>

\* an angle is 0 modulo a turn exactly at the start of its period
C10_WrapState ==
    time_arg # None =>
        /\ hour_angle[1] % hour_angle[2] = 0 <=> time_arg[1] = 0
        /\ minute_angle[1] % minute_angle[2] = 0 <=> time_arg[1] % 3600 = 0

\* one second later the angle is further round its turn, unless it wrapped
C10_TickStep ==
    (time_arg # None /\ time_arg' # time_arg) =>
        /\ time_arg'[1] # 0 =>
              TurnUnits(hour_angle', 86400) > TurnUnits(hour_angle, 86400)
        /\ time_arg'[1] % 3600 # 0 =>
              TurnUnits(minute_angle', 3600) > TurnUnits(minute_angle, 3600)

\* C10: from each second to the next both angles increase modulo a turn,
\* except that the hour angle is 0 modulo a turn exactly at second 0 of the
\* day and the minute angle exactly at second 0 of each hour.
C10_Monotonic == []C10_WrapState /\ [][C10_TickStep]_vars

C10_Witness ==
    /\ time_arg = <<7200>>
    /\ minute_angle = <<2, 1>>
    /\ hour_angle = <<1, 12>>

\* the rotation is the time of day as a fraction of a turn plus a quarter turn
C11_RotationState ==
    date_arg # None =>
        LET s == date_arg[1].secs
            r == uniforms.rotation
        IN  /\ 86400 % r[2] = 0
            /\ r[1] * (86400 \div r[2]) = s + 21600
            /\ s = 0 => r = <<1, 4>>
            /\ r = <<1, 4>> => s = 0

\* a date with the same time of day gives the same rotation
C11_SameTimeStep ==
    (date_arg # None /\ date_arg' # None /\ date_arg'[1].secs = date_arg[1].secs) =>
        uniforms'.rotation = uniforms.rotation

C12_TiltState ==
    date_arg # None =>
        LET d == date_arg[1].ordinal0
            t == uniforms.axial_tilt
        IN  /\ t.scale = <<13, 200>>
            /\ 4 * Abs(t.asin[1]) <= t.asin[2]
            /\ (d = 78) <=> (t.asin = <<0, 1>>)
            /\ (d = 0 \/ d = 365) => t.asin = <<-78, 365>>
            /\ (d = 1) => t.asin = <<-77, 365>>
            /\ t.asin[1] * 365 <= 91 * t.asin[2]
            /\ t.asin[1] * 365 >= (-91) * t.asin[2]
            /\ (d = 169) <=> (t.asin = <<91, 365>>)
            /\ (d = 352) <=> (t.asin = <<-91, 365>>)

\* a date with the same day index gives the same tilt
C12_SameDayStep ==
    (date_arg # None /\ date_arg' # None
        /\ date_arg'[1].ordinal0 = date_arg[1].ordinal0) =>
        uniforms'.axial_tilt = uniforms.axial_tilt

\* C12: after set_date the axial tilt is 23.4 degrees times the sine of
\* (day index - 78) / 365 of a turn: it changes with the day index only, is
\* the same at index 365 (the 366th day of a leap year) as at index 0, is zero
\* exactly at index 78, never exceeds 23.4 degrees in magnitude, and over the
\* day indices is greatest at index 169 and least at index 352, 91 days after
\* and 91 days (modulo 365) before index 78.
C12_AxialTilt == []C12_TiltState /\ [][C12_SameDayStep]_vars

C12_Witness ==
    /\ date_arg # None
    /\ date_arg[1].ordinal0 = 365
    /\ uniforms.axial_tilt.asin = <<-78, 365>>

\* after a failed construction there is no event loop, no surface and no frame
C15_FailedState ==
    startup \in {"adapter", "device", "render_format", "day_texture", "night_texture"} =>
        /\ panicked
        /\ control_flow.kind = "Poll"
        /\ swap_chain = None
        /\ acquisitions = 0 /\ outcome = "None" /\ result = "None"
        /\ queue_log = <<>>
        /\ uniform_buffer = None /\ texture = None
        /\ date_arg = None /\ time_arg = None

\* C15: when the adapter, the device, the render format or one of the two
\* globe textures fails during construction, App::new fails as a whole and
\* startup aborts: the event loop never starts, nothing is retried, no swap
\* chain is configured, no time is set and no frame is drawn or uploaded, in
\* every later state; the event loop runs only after a construction in which
\* every step succeeded.
C15_StartupFailure ==
    /\ []C15_FailedState
    /\ [][startup # "None" => UNCHANGED vars]_vars
    /\ [](control_flow.kind # "Poll" => startup = "None")

C15_Witness == startup = "night_texture" /\ panicked /\ control_flow.kind = "Poll"

\* the pixmap of a clock face with the hands at hour angle h and minute angle m
FacePixmap(h, m) ==
    << [path |-> "major_tick_path", stroke |-> "major_stroke", rotate |-> <<0, 1>>],
       [path |-> "minor_tick_path", stroke |-> "minor_stroke", rotate |-> <<0, 1>>],
       [path |-> "hour_hand_path", stroke |-> "major_stroke", rotate |-> <<-h[1], h[2]>>],
       [path |-> "minute_hand_path", stroke |-> "minor_stroke", rotate |-> <<-m[1], m[2]>>] >>

\* a frame's pixmap and texture are those of the angles at the time of the draw
C13_DrawStep ==
    FrameStep =>
        /\ pixmap' = FacePixmap(hour_angle, minute_angle)
        /\ texture' = <<pixmap'>>

\* C13: the pixmap a clock face draw leaves, and uploads, is the cleared
\* pixmap with the two tick paths and the two hands stroked at the current
\* hour and minute angles: it is determined by the two angles alone, whatever
\* earlier draws had left in the pixmap; between draws the pixmap is either
\* still blank or that of some pair of angles.
C13_PixmapOfAngles ==
    /\ [][C13_DrawStep]_vars
    /\ [](pixmap = <<>> \/ (Len(pixmap) = 4 /\ texture = <<pixmap>>))

C13_Witness ==
    /\ pc = "wait" /\ outcome = "Ok"
    /\ hour_angle = <<1, 48>>
    /\ pixmap = FacePixmap(<<1, 48>>, <<1, 2>>)
    /\ texture = <<pixmap>>

\* C19: in every submitted frame the first pass is the Background pass, which
\* clears the target to black; it is the only pass that clears: the Globe and
\* ClockFace passes that follow load the target and blend over it.
C19_OnlyBackgroundClears ==
    \A i \in 1..Len(Submits) :
        LET passes == Submits[i].passes
        IN  /\ Len(passes) >= 1
            /\ passes[1].label = "Background.render_pass"
            /\ passes[1].load = "Clear" /\ passes[1].clear_color = "BLACK"
            /\ \A j \in 2..Len(passes) :
                  /\ passes[j].load = "Load"
                  /\ passes[j].label \in {"Globe.render_pass", "ClockFace.render_pass"}
                  /\ passes[j].blend \in {"ALPHA_BLENDING", "PREMULTIPLIED_ALPHA_BLENDING"}

C19_Witness ==
    /\ Len(Submits) = 1
    /\ Len(Submits[1].passes) = 3
    /\ Submits[1].passes[1].load = "Clear"
    /\ Submits[1].passes[3].load = "Load"

\* a step in which the RedrawRequested handler runs App::update and enters App::redraw
UpdateStep == pc = "wait" /\ pc' = "acquire"

\* the globe and the clock hold the parameters of one instant, the clock in a
\* local time of that instant
C16_OneInstant ==
    (date_arg # None \/ time_arg # None) =>
        /\ date_arg # None /\ time_arg # None
        /\ \E offset \in {0, 3600} :
              time_arg[1] = (date_arg[1].secs + offset) % 86400
        /\ uniforms.rotation = Rotation(date_arg[1])
        /\ uniforms.axial_tilt = AxialTilt(date_arg[1])
        /\ hour_angle = HourAngle(time_arg[1])
        /\ minute_angle = MinuteAngle(time_arg[1])

\* the handler samples an instant and sets both components before any acquisition
C16_UpdateStep ==
    UpdateStep =>
        /\ date_arg' \in {<<[ordinal0 |-> 78, secs |-> 0]>>,
                          <<[ordinal0 |-> 365, secs |-> 84600]>>}
        /\ time_arg' # None
        /\ acquisitions' = 0 /\ outcome' = "None" /\ queue_log' = <<>>

\* the frame uploads the parameters set by the update of its own redraw
C16_FrameStep ==
    (pc = "acquire") =>
        /\ UNCHANGED <<uniforms, hour_angle, minute_angle, date_arg, time_arg>>
        /\ FrameStep =>
              /\ uniform_buffer' = <<uniforms>>
              /\ uniform_buffer'[1].rotation = Rotation(date_arg[1])
              /\ uniform_buffer'[1].axial_tilt = AxialTilt(date_arg[1])
              /\ pixmap' = FacePixmap(HourAngle(time_arg[1]), MinuteAngle(time_arg[1]))
              /\ texture' = <<pixmap'>>

\* C16: the RedrawRequested handler runs the update before the first
\* acquisition of its redraw: it samples one instant and sets the globe from
\* it and the clock from the same instant in local time; nothing changes the
\* parameters during the redraw, and a frame that is drawn uploads exactly
\* those parameters for the globe and the clock.
C16_FrameShowsOneInstant ==
    /\ []C16_OneInstant
    /\ [][C16_UpdateStep]_vars
    /\ [][C16_FrameStep]_vars

C16_Witness ==
    /\ pc = "wait" /\ outcome = "Ok"
    /\ date_arg = <<[ordinal0 |-> 365, secs |-> 84600]>>
    /\ time_arg = <<1800>>
    /\ uniform_buffer # None
    /\ uniform_buffer[1].rotation = <<59, 48>>
    /\ pixmap = FacePixmap(<<1, 48>>, <<1, 2>>)

\* a step of resize handling, as seen from the state
ResizeHandlingStep ==
    /\ pc = "wait" /\ pc' = "wait"
    /\ swap_chain' = None
    /\ UNCHANGED <<uniforms, hour_angle, minute_angle, date_arg, time_arg,
                   uniform_buffer, pixmap, texture, acquisitions, outcome,
                   result, queue_log, redraw_requested, control_flow, panicked>>

\* C17: the projection changes only in a step of resize handling, which sets
\* it from the window's size at that moment; the time update and every step
\* of a redraw, whether it draws, skips, retries after Lost or fails, leave it
\* as it was.
C17_ProjectionOnlyOnResize ==
    /\ [][proj' # proj =>
            (ResizeHandlingStep /\ IsProjectionFor(proj', window_size[1], window_size[2]))]_vars
    /\ [][(UpdateStep \/ pc = "acquire") => proj' = proj]_vars

C17_Witness ==
    /\ pc = "wait" /\ outcome = "Ok"
    /\ IsProjectionFor(proj, 1, 2)
    /\ window_size = <<2, 1>>
    /\ swap_chain = <<[width |-> 1, height |-> 2]>>

\* the globe fields that set_date does not assign keep their construction values
C18_ConstructionValues ==
    /\ uniforms.local_scale = <<4, 5>>
    /\ uniforms.min_latitude = <<-1, 4>>
    /\ uniforms.max_latitude = <<1, 4>>
    /\ uniforms.deflection_point = << <<11, 20>>, <<13, 20>> >>
    /\ DOMAIN uniforms = {"local_scale", "rotation", "axial_tilt", "min_latitude",
                          "max_latitude", "deflection_point"}

\* the angles are those of the last arguments, whatever they were before
C18_OfArgument ==
    /\ date_arg # None =>
          /\ uniforms.rotation = Rotation(date_arg[1])
          /\ uniforms.axial_tilt = AxialTilt(date_arg[1])
    /\ date_arg = None => (uniforms.rotation = <<0, 1>> /\ uniforms.axial_tilt.asin = <<0, 1>>)
    /\ time_arg # None =>
          /\ hour_angle = HourAngle(time_arg[1])
          /\ minute_angle = MinuteAngle(time_arg[1])
    /\ time_arg = None => (hour_angle = <<0, 1>> /\ minute_angle = <<0, 1>>)

\* the step that calls set_date and set_time writes nothing to the GPU
C18_UpdateStep ==
    UpdateStep =>
        /\ UNCHANGED <<uniform_buffer, pixmap, texture, proj, swap_chain>>
        /\ queue_log' = <<>>

\* C18: set_time assigns the hour and minute angles only and set_date the
\* rotation and axial tilt only: the pixmap, the clock texture, the uploaded
\* globe uniforms and the projection are untouched and no queue operation is
\* issued; the other globe uniform fields keep their construction values; the
\* values assigned are those of the argument alone.
C18_SettersAreLocal ==
    /\ [](C18_ConstructionValues /\ C18_OfArgument)
    /\ [][C18_UpdateStep]_vars

C18_Witness ==
    /\ pc = "acquire" /\ acquisitions = 0
    /\ date_arg = <<[ordinal0 |-> 365, secs |-> 84600]>>
    /\ time_arg = <<84600>>
    /\ uniform_buffer # None
    /\ uniform_buffer[1].rotation = <<1, 4>>
    /\ pixmap = FacePixmap(<<0, 1>>, <<0, 1>>)
    /\ uniforms.rotation = <<59, 48>>

\* a step in which the ResumeTimeReached handler arms the next deadline
TimerStep ==
    /\ control_flow.kind = "WaitUntil" /\ control_flow'.kind = "WaitUntil"
    /\ control_flow'.at = control_flow.at + 1

\* C14: every timer firing and every handled resize event leaves a redraw
\* requested.
C14_RedrawOnTimerAndResize ==
    [][(TimerStep \/ ResizedStep) => redraw_requested']_vars

\* C20 as stated: with Exit set nothing of the application changes any more,
\* and no acquisition outcome sets Exit.
C20_NothingAfterClose ==
    /\ [][control_flow.kind = "Exit" =>
            UNCHANGED <<control_flow, pc, swap_chain, proj, uniforms, hour_angle,
                        minute_angle, uniform_buffer, pixmap, texture,
                        redraw_requested, resized_pending>>]_vars
    /\ [][pc = "acquire" => control_flow' = control_flow]_vars

\* with Exit set the control flow stays Exit, no deadline is armed, no new
\* redraw is requested and no new resize is queued
C20_AfterExitStep ==
    control_flow.kind = "Exit" =>
        /\ control_flow' = control_flow
        /\ ~TimerStep
        /\ redraw_requested' => redraw_requested
        /\ resized_pending' => resized_pending
        /\ window_size' = window_size

\* Exit is set by the CloseRequested handler alone, between redraws
C20_ExitStep ==
    (control_flow.kind # "Exit" /\ control_flow'.kind = "Exit") =>
        /\ pc = "wait" /\ pc' = "wait"
        /\ UNCHANGED <<startup, window_size, resized_pending, redraw_requested,
                       panicked, swap_chain, proj, uniforms, uniform_buffer,
                       hour_angle, minute_angle, pixmap, texture, date_arg,
                       time_arg, acquisitions, outcome, result, queue_log>>

\* no step of a redraw changes the control flow; Lost, Timeout and Outdated
\* do not end the loop by a panic either
C20_RedrawStep ==
    pc = "acquire" =>
        /\ control_flow' = control_flow
        /\ outcome' \in {"Lost", "Timeout", "Outdated"} => ~panicked'

\* C20: once close is requested the control flow is Exit and stays Exit: no
\* timer firing is handled, no deadline is armed and no new redraw request or
\* resize is accepted; only a redraw request or resize event that was already
\* queued can still be handled.  Exit is set by the close request alone, never
\* by a step of a redraw, and Lost, Timeout and Outdated do not end the loop.
C20_ExitIsSticky ==
    /\ [][C20_AfterExitStep]_vars
    /\ [][C20_ExitStep]_vars
    /\ [][C20_RedrawStep]_vars

C20_Witness ==
    /\ control_flow.kind = "Exit"
    /\ pc = "acquire" /\ outcome = "Lost"
    /\ ~panicked

\* a step that changes the control flow is the Init arm arming the deadline
\* t0, the timer arm arming the deadline one second after the one that
\* fired and requesting a redraw, or the close arm setting Exit
C21_ControlFlowStep ==
    control_flow' # control_flow =>
        /\ pc = "wait" /\ pc' = "wait"
        /\ \/ /\ control_flow.kind = "Poll"
              /\ control_flow' = [kind |-> "WaitUntil", at |-> 0]
              /\ redraw_requested' = redraw_requested
           \/ /\ control_flow.kind = "WaitUntil"
              /\ control_flow' = [kind |-> "WaitUntil", at |-> control_flow.at + 1]
              /\ redraw_requested'
           \/ /\ control_flow.kind = "WaitUntil"
              /\ control_flow'.kind = "Exit"
              /\ redraw_requested' = redraw_requested
        /\ UNCHANGED <<swap_chain, proj, uniforms, hour_angle, minute_angle,
                       uniform_buffer, pixmap, texture, window_size, resized_pending>>

\* resize handling, the time update and every step of a redraw leave the
\* control flow as it is
C21_OtherEventStep ==
    (ResizedStep \/ ResizeHandlingStep \/ UpdateStep \/ pc = "acquire"
        \/ window_size' # window_size) =>
        control_flow' = control_flow

\* C21: the Init event arms the timer with the deadline t0; every timer firing
\* arms the deadline that is exactly one second after the deadline that fired,
\* however late the firing was, and leaves a redraw requested; no other event
\* changes the control flow except the close request, so from the Init event
\* until close a deadline t0 + k seconds is pending.
C21_DriftFreeTimer ==
    /\ [][C21_ControlFlowStep]_vars
    /\ [][C21_OtherEventStep]_vars
    /\ []((startup = "None" /\ control_flow.kind \notin {"Poll", "Exit"}) =>
            (control_flow.kind = "WaitUntil" /\ control_flow.at \in Nat))

C21_Witness ==
    /\ control_flow = [kind |-> "WaitUntil", at |-> 1]
    /\ pc = "wait" /\ outcome = "Ok"
    /\ swap_chain = <<>> /\ ~resized_pending
    /\ ~panicked

====
